---- MODULE Spec2Model ----
(***************************************************************************)
(* ClientSidePreparedStatement (src/src/ClientSidePreparedStatement.cpp):  *)
(* statement handles sharing one connection (one Protocol and its mutex).  *)
(* Every handle runs its calls on its own thread, one call at a time; the  *)
(* calls of different handles interleave at the steps marked by pc.        *)
(***************************************************************************)
EXTENDS Integers, Sequences, FiniteSets, TLC

\* ---------------------------------------------------------------- bounds
\* handles on the connection
NStmts == 2
\* largest parameter count of a statement
MaxParams == 2
\* longest batch queue of the batch specification
MaxBatch == 3
\* longest batch queue of the channel specification
MaxQueued == 1
\* most ephemeral prepares followed per handle
MaxPrepares == 2

Stmts == 1..NStmts
NoStmt == 0

\* a bound slot holds one of Vals; Null is the empty Shared::ParameterHolder;
\* Garbage is a non-null bit pattern read from storage past the vector's end
Vals == {"a"}
Null == "null"
Garbage == "garbage"

\* messages of the SQLExceptions the collaborators raise (may be empty)
Msgs == {"", "E"}

VARIABLES
  created,        \* created[s]: the handle exists
  paramCount,     \* prepareResult->getParamCount()
  parameters,     \* std::vector<Shared::ParameterHolder> parameters
  parameterList,  \* std::vector<std::vector<Shared::ParameterHolder>> parameterList
  hasLongData,    \* bool hasLongData
  results,        \* stmt->getInternalResults(): "null" or "set"
  pc,             \* position of the handle's thread
  op,             \* the call the thread is in
  size,           \* local `size` of executeBatch / executeLargeBatch
  it,             \* position of the range-for over parameterList
  exception,      \* local `exception` of executeInternalBatch
  caught,         \* the SQLException a catch block is handling
  trace,          \* Transport calls the handle's running operation has made
  ret,            \* the call that completed in the latest step (NoCall if none)
  lock,           \* owner of *protocol->getLock(), NoStmt when free
  continueBatchOnError, \* stmt->options->continueBatchOnError
  queryTimeout,         \* stmt->queryTimeout
  canUseServerTimeout,  \* stmt->canUseServerTimeout
  resultSetMetaData,    \* Shared::ResultSetMetaData resultSetMetaData
  parameterMetaData,    \* Shared::ParameterMetaData parameterMetaData
  prepares,       \* callers of the ServerSidePreparedStatement a handle created
  interrupted,    \* the interrupt flag protocol->stopIfInterrupted() tests
  crashed         \* the process was aborted by an out-of-bounds access

storeVars == <<created, paramCount, parameters, parameterList, hasLongData>>
execVars == <<results, pc, op, size, it, exception, caught, trace, lock>>
optVars == <<continueBatchOnError, queryTimeout, canUseServerTimeout>>
metaVars == <<resultSetMetaData, parameterMetaData, prepares>>
vars == <<storeVars, execVars, optVars, metaVars, ret, interrupted, crashed>>

\* ------------------------------------------------------------- exceptions
NoErr == [type |-> "none", pos |-> 0, msg |-> ""]
Err(t, p, m) == [type |-> t, pos |-> p, msg |-> m]
NoCall ==
  [stmt |-> NoStmt, op |-> "none", kind |-> "none", err |-> NoErr, counts |-> 0,
   hooks |-> {}]
\* handle s returned from call o with n update counts, having run the hooks h
Returned(s, o, n, h) ==
  [stmt |-> s, op |-> o, kind |-> "ok", err |-> NoErr, counts |-> n, hooks |-> h]
\* handle s left call o by raising e, having run the hooks h
Raised(s, o, e, h) ==
  [stmt |-> s, op |-> o, kind |-> "raised", err |-> e, counts |-> 0, hooks |-> h]

\* --------------------------------------------------------- ParameterStore
\* n default-constructed (empty) holders
Unbound(n) == [i \in 1..n |-> Null]

\* what operator[] yields for i = 1..paramCount: the element inside the vector,
\* anything (empty or not) past its end
ParameterReads(s) ==
  { r \in [1..paramCount[s] -> Vals \cup {Null, Garbage}] :
      \A i \in 1..paramCount[s] :
        IF i <= Len(parameters[s]) THEN r[i] = parameters[s][i]
        ELSE r[i] \in {Null, Garbage} }

\* first i with !r[i], 0 when every holder is set
FirstUnset(r) ==
  IF \E i \in DOMAIN r : r[i] = Null
  THEN CHOOSE i \in DOMAIN r : r[i] = Null /\ \A j \in 1..(i - 1) : r[j] # Null
  ELSE 0

\* the ascending scan reaches an index past the vector's end
ReadsPastEnd(s) ==
  \E i \in (Len(parameters[s]) + 1)..paramCount[s] :
    \A j \in 1..Len(parameters[s]) : parameters[s][j] # Null

\* slot i of the handle's store holds a value
SlotBound(s, i) == i <= Len(parameters[s]) /\ parameters[s][i] # Null

Idle(s) == created[s] /\ pc[s] = "idle" /\ ~crashed

\* ------------------------------------------------------------------- Init
\* N: parameter counts of the first statement; O: <<continueBatchOnError,
\* queryTimeout, canUseServerTimeout>> settings of the connection
InitWith(N, O) ==
  /\ \E n \in N :
       /\ paramCount = [s \in Stmts |-> IF s = 1 THEN n ELSE 0]
       /\ parameters = [s \in Stmts |-> IF s = 1 THEN Unbound(n) ELSE <<>>]
  /\ created = [s \in Stmts |-> s = 1]
  /\ parameterList = [s \in Stmts |-> <<>>]
  /\ hasLongData = [s \in Stmts |-> FALSE]
  /\ results = [s \in Stmts |-> "null"]
  /\ pc = [s \in Stmts |-> "idle"]
  /\ op = [s \in Stmts |-> "none"]
  /\ size = [s \in Stmts |-> 0]
  /\ it = [s \in Stmts |-> 0]
  /\ exception = [s \in Stmts |-> NoErr]
  /\ caught = [s \in Stmts |-> NoErr]
  /\ trace = [s \in Stmts |-> <<>>]
  /\ ret = NoCall
  /\ lock = NoStmt
  /\ \E o \in O :
       /\ continueBatchOnError = o[1]
       /\ queryTimeout = o[2]
       /\ canUseServerTimeout = o[3]
  /\ resultSetMetaData = [s \in Stmts |-> "null"]
  /\ parameterMetaData = [s \in Stmts |-> "null"]
  /\ prepares = [s \in Stmts |-> <<>>]
  /\ interrupted = FALSE
  /\ crashed = FALSE

AllOptions == BOOLEAN \X {0, 1} \X BOOLEAN
DefaultOptions == {<<FALSE, 0, FALSE>>}

Init == InitWith(0..MaxParams, AllOptions)

\* ------------------------------------------------- constructor and clone
\* ClientSidePreparedStatement(connection, sql, ...): parameters.assign(n, empty)
Construct(s, n) ==
  /\ ~crashed /\ ~created[s]
  /\ created' = [created EXCEPT ![s] = TRUE]
  /\ paramCount' = [paramCount EXCEPT ![s] = n]
  /\ parameters' = [parameters EXCEPT ![s] = Unbound(n)]
  /\ ret' = NoCall
  /\ UNCHANGED <<parameterList, hasLongData, execVars, optVars, metaVars, interrupted, crashed>>

\* clone(): the private constructor leaves `parameters` empty and
\* parameters.reserve(n) only allocates: the clone's vector has size 0
Clone(src, dst) ==
  /\ Idle(src) /\ ~created[dst]
  /\ created' = [created EXCEPT ![dst] = TRUE]
  /\ paramCount' = [paramCount EXCEPT ![dst] = paramCount[src]]
  /\ parameters' = [parameters EXCEPT ![dst] = <<>>]
  /\ resultSetMetaData' = [resultSetMetaData EXCEPT ![dst] = resultSetMetaData[src]]
  /\ parameterMetaData' = [parameterMetaData EXCEPT ![dst] = parameterMetaData[src]]
  /\ ret' = Returned(src, "clone", 0, {})
  /\ UNCHANGED <<parameterList, hasLongData, execVars, optVars, prepares,
                 interrupted, crashed>>

\* ------------------------------------------------------- parameter calls
\* setParameter(parameterIndex, holder)
SetParameter(s, idx, v) ==
  /\ Idle(s)
  /\ IF idx >= 1 /\ idx < paramCount[s] + 1
     THEN IF idx <= Len(parameters[s])
          THEN /\ parameters' = [parameters EXCEPT ![s][idx] = v]
               /\ ret' = Returned(s, "setParameter", 0, {})
               /\ UNCHANGED crashed
          ELSE \* parameters[idx - 1] is past the end of the vector: the write
               \* lands in raw storage (the vector keeps its size) or aborts
               \/ /\ ret' = Returned(s, "setParameter", 0, {})
                  /\ UNCHANGED <<parameters, crashed>>
               \/ /\ crashed' = TRUE
                  /\ ret' = NoCall /\ UNCHANGED parameters
     ELSE /\ ret' = Raised(s, "setParameter", Err("InvalidParameterIndex", idx, "E"), {})
          /\ UNCHANGED <<parameters, crashed>>
  /\ UNCHANGED <<created, paramCount, parameterList, hasLongData, execVars,
                 optVars, metaVars, interrupted>>

\* clearParameters(): clear() then assign(n, empty)
ClearParameters(s) ==
  /\ Idle(s)
  /\ parameters' = [parameters EXCEPT ![s] = Unbound(paramCount[s])]
  /\ ret' = Returned(s, "clearParameters", 0, {})
  /\ UNCHANGED <<created, paramCount, parameterList, hasLongData, execVars,
                 optVars, metaVars, interrupted, crashed>>

\* addBatch(): copy the holders in ascending order, raise at the first empty one
AddBatch(s, cap) ==
  /\ Idle(s)
  /\ Len(parameterList[s]) < cap
  /\ \/ \E r \in ParameterReads(s) :
          /\ IF FirstUnset(r) # 0
             THEN /\ ret' = Raised(s, "addBatch", Err("UnboundParameter", 0, "E"), {})
                  /\ UNCHANGED parameterList
             ELSE /\ parameterList' = [parameterList EXCEPT ![s] = Append(@, r)]
                  /\ ret' = Returned(s, "addBatch", 0, {})
          /\ UNCHANGED crashed
     \/ /\ ReadsPastEnd(s)
        /\ crashed' = TRUE
        /\ ret' = NoCall /\ UNCHANGED parameterList
  /\ UNCHANGED <<created, paramCount, parameters, hasLongData, execVars,
                 optVars, metaVars, interrupted>>

\* clearBatch(): also clears `parameters`, whose size becomes 0
ClearBatch(s) ==
  /\ Idle(s)
  /\ parameterList' = [parameterList EXCEPT ![s] = <<>>]
  /\ hasLongData' = [hasLongData EXCEPT ![s] = FALSE]
  /\ parameters' = [parameters EXCEPT ![s] = <<>>]
  /\ ret' = Returned(s, "clearBatch", 0, {})
  /\ UNCHANGED <<created, paramCount, execVars, optVars, metaVars, interrupted, crashed>>

\* ------------------------------------------------------------- Transport
\* how a Transport call can end: completed, or failed with message m
Completed == [ok |-> TRUE, msg |-> ""]
Failed(m) == [ok |-> FALSE, msg |-> m]
TransportResults(msgs) == {Completed} \cup {Failed(m) : m \in msgs}

\* one Transport call, as the handle's operation made it: the holders it was
\* given, whether it was given the statement's timeout, how it ended and
\* (executeBatchClient) whether it reported the batch as handled
Call(s, name, pos, args, timeout, r, handled) ==
  [call |-> name, pos |-> pos, args |-> args, timeout |-> timeout,
   ok |-> r.ok, msg |-> r.msg, handled |-> handled, held |-> lock = s]

\* the calling thread leaves the operation: its locals go out of scope
Leave(s) ==
  /\ pc' = [pc EXCEPT ![s] = "idle"]
  /\ op' = [op EXCEPT ![s] = "none"]
  /\ size' = [size EXCEPT ![s] = 0]
  /\ it' = [it EXCEPT ![s] = 0]
  /\ exception' = [exception EXCEPT ![s] = NoErr]
  /\ caught' = [caught EXCEPT ![s] = NoErr]
  /\ trace' = [trace EXCEPT ![s] = <<>>]

\* mutant: every handle locks a mutex of its own, so nobody ever waits
AcquireOwnMutex(s) == lock' = s

\* std::unique_lock / std::lock_guard on *protocol->getLock(): blocks while
\* another thread owns the mutex
Acquire(s) ==
  /\ lock = NoStmt
  /\ lock' = s

\* the guard's destructor (or unlock()) at scope exit
Release(s) == lock' = NoStmt

Goto(s, l) == pc' = [pc EXCEPT ![s] = l]

\* ------------------------------------------------------ executeInternal
\* lines 105-112: the validation loop, before the lock is taken
Execute(s) ==
  /\ Idle(s)
  /\ \/ \E r \in ParameterReads(s) :
          /\ IF FirstUnset(r) # 0
             THEN /\ ret' = Raised(s, "execute",
                                   Err("UnboundParameter", FirstUnset(r), "E"), {})
                  /\ UNCHANGED <<pc, op>>
             ELSE /\ Goto(s, "e_lock")
                  /\ op' = [op EXCEPT ![s] = "execute"]
                  /\ ret' = NoCall
          /\ UNCHANGED crashed
     \/ /\ ReadsPastEnd(s)
        /\ crashed' = TRUE
        /\ ret' = NoCall
        /\ UNCHANGED <<pc, op>>
  /\ UNCHANGED <<storeVars, results, size, it, exception, caught, trace, lock,
                 optVars, metaVars, interrupted>>

\* line 114
ExecLock(s) ==
  /\ ~crashed /\ pc[s] = "e_lock"
  /\ Acquire(s)
  /\ Goto(s, "e_prologue")
  /\ ret' = NoCall
  /\ UNCHANGED <<storeVars, results, op, size, it, exception, caught, trace,
                 optVars, metaVars, interrupted, crashed>>

\* lines 116-129: executeQueryPrologue(false), then a new Results; the
\* prologue may raise before the Results exists
ExecPrologue(s, r) ==
  /\ ~crashed /\ pc[s] = "e_prologue"
  /\ IF r.ok
     THEN /\ results' = [results EXCEPT ![s] = "set"]
          /\ interrupted' = FALSE
          /\ Goto(s, "e_exec")
          /\ UNCHANGED caught
     ELSE /\ caught' = [caught EXCEPT ![s] = Err("Prologue", 0, r.msg)]
          /\ Goto(s, "e_catch")
          /\ UNCHANGED <<results, interrupted>>
  /\ ret' = NoCall
  /\ UNCHANGED <<storeVars, op, size, it, exception, trace, lock, optVars, metaVars, crashed>>

\* lines 130-137: protocol->executeQuery, with or without the timeout
ExecQuery(s, r) ==
  /\ ~crashed /\ pc[s] = "e_exec"
  /\ trace' = [trace EXCEPT ![s] = Append(@,
       Call(s, "executeQuery", 0, parameters[s],
            queryTimeout # 0 /\ canUseServerTimeout, r, FALSE))]
  /\ IF r.ok
     THEN Goto(s, "e_end") /\ UNCHANGED caught
     ELSE /\ caught' = [caught EXCEPT ![s] = Err("Transport", 0, r.msg)]
          /\ Goto(s, "e_catch")
  /\ ret' = NoCall
  /\ UNCHANGED <<storeVars, results, op, size, it, exception, lock, optVars, metaVars,
                 interrupted, crashed>>

\* lines 138-140: commandEnd, executeEpilogue, return; the lock goes with the scope
ExecEnd(s) ==
  /\ ~crashed /\ pc[s] = "e_end"
  /\ ret' = Returned(s, "execute", 0, {"commandEnd", "executeEpilogue"})
  /\ Release(s)
  /\ Leave(s)
  /\ UNCHANGED <<storeVars, results, optVars, metaVars, interrupted, crashed>>

\* lines 142-149: commandEnd if a Results exists, executeEpilogue, unlock, Throw
ExecCatch(s) ==
  /\ ~crashed /\ pc[s] = "e_catch"
  /\ ret' = Raised(s, "execute", caught[s],
                   IF results[s] # "null" THEN {"commandEnd", "executeEpilogue"}
                   ELSE {"executeEpilogue"})
  /\ Release(s)
  /\ Leave(s)
  /\ UNCHANGED <<storeVars, results, optVars, metaVars, interrupted, crashed>>

\* ----------------------------------- executeBatch / executeLargeBatch
\* mutant: no early return on an empty queue
ExecuteBatchAlwaysLocks(s, o) ==
  /\ Idle(s)
  /\ Goto(s, "b_lock")
  /\ op' = [op EXCEPT ![s] = o]
  /\ size' = [size EXCEPT ![s] = Len(parameterList[s])]
  /\ ret' = NoCall
  /\ UNCHANGED <<storeVars, results, it, exception, caught, trace, lock, optVars, metaVars,
                 interrupted, crashed>>

\* lines 192-196 (236-240): checkClose, size, the early return on an empty queue
ExecuteBatch(s, o) ==
  /\ Idle(s)
  /\ IF Len(parameterList[s]) = 0
     THEN /\ ret' = Returned(s, o, 0, {})
          /\ UNCHANGED <<pc, op, size>>
     ELSE /\ Goto(s, "b_lock")
          /\ op' = [op EXCEPT ![s] = o]
          /\ size' = [size EXCEPT ![s] = Len(parameterList[s])]
          /\ ret' = NoCall
  /\ UNCHANGED <<storeVars, results, it, exception, caught, trace, lock, optVars, metaVars,
                 interrupted, crashed>>

\* line 198 (242)
BatchLock(s) ==
  /\ ~crashed /\ pc[s] = "b_lock"
  /\ Acquire(s)
  /\ Goto(s, "b_prologue")
  /\ ret' = NoCall
  /\ UNCHANGED <<storeVars, results, op, size, it, exception, caught, trace,
                 optVars, metaVars, interrupted, crashed>>

\* lines 265-278: executeQueryPrologue(true), then a new Results
BatchPrologue(s, r) ==
  /\ ~crashed /\ pc[s] = "b_prologue"
  /\ IF r.ok
     THEN /\ results' = [results EXCEPT ![s] = "set"]
          /\ interrupted' = FALSE
          /\ Goto(s, "b_rewrite")
          /\ UNCHANGED caught
     ELSE /\ caught' = [caught EXCEPT ![s] = Err("Prologue", 0, r.msg)]
          /\ Goto(s, "b_catch")
          /\ UNCHANGED <<results, interrupted>>
  /\ ret' = NoCall
  /\ UNCHANGED <<storeVars, op, size, it, exception, trace, lock, optVars, metaVars, crashed>>

\* mutant: the return value of executeBatchClient is ignored
BatchRewriteIgnoresHandled(s, r, handled) ==
  /\ ~crashed /\ pc[s] = "b_rewrite"
  /\ trace' = [trace EXCEPT ![s] = Append(@,
       Call(s, "executeBatchClient", 0, <<>>, FALSE, r, r.ok /\ handled))]
  /\ IF ~r.ok
     THEN /\ caught' = [caught EXCEPT ![s] = Err("Transport", 0, r.msg)]
          /\ Goto(s, "b_catch")
          /\ UNCHANGED <<it, exception>>
     ELSE /\ Goto(s, "b_loop")
          /\ it' = [it EXCEPT ![s] = 1]
          /\ exception' = [exception EXCEPT ![s] = Err("none", 0, "")]
          /\ UNCHANGED caught
  /\ ret' = NoCall
  /\ UNCHANGED <<storeVars, results, op, size, lock, optVars, metaVars, interrupted, crashed>>

\* lines 279-285: protocol->executeBatchClient; `handled` is its return value
BatchRewrite(s, r, handled) ==
  /\ ~crashed /\ pc[s] = "b_rewrite"
  /\ trace' = [trace EXCEPT ![s] = Append(@,
       Call(s, "executeBatchClient", 0, <<>>, FALSE, r, r.ok /\ handled))]
  /\ IF ~r.ok
     THEN /\ caught' = [caught EXCEPT ![s] = Err("Transport", 0, r.msg)]
          /\ Goto(s, "b_catch")
          /\ UNCHANGED <<it, exception>>
     ELSE IF handled
     THEN /\ Goto(s, "b_end")
          /\ UNCHANGED <<it, exception, caught>>
     ELSE /\ Goto(s, "b_loop")
          /\ it' = [it EXCEPT ![s] = 1]
          /\ exception' = [exception EXCEPT ![s] = Err("none", 0, "")]
          /\ UNCHANGED caught
  /\ ret' = NoCall
  /\ UNCHANGED <<storeVars, results, op, size, lock, optVars, metaVars, interrupted, crashed>>

\* lines 287-289, 307-308 and 326-330: the head of the range-for (with
\* stopIfInterrupted only when queryTimeout > 0) and the test after the loop
BatchLoop(s) ==
  /\ ~crashed /\ pc[s] = "b_loop"
  /\ IF it[s] > Len(parameterList[s])
     THEN IF exception[s].msg # ""
          THEN /\ caught' = [caught EXCEPT ![s] = exception[s]]
               /\ Goto(s, "b_catch")
          ELSE /\ Goto(s, "b_end")
               /\ UNCHANGED caught
     ELSE IF queryTimeout > 0 /\ interrupted
          THEN /\ caught' = [caught EXCEPT ![s] = Err("Interrupted", it[s], "E")]
               /\ Goto(s, "b_catch")
          ELSE /\ Goto(s, "b_exec")
               /\ UNCHANGED caught
  /\ ret' = NoCall
  /\ UNCHANGED <<storeVars, results, op, size, it, exception, trace, lock, optVars, metaVars,
                 interrupted, crashed>>

\* mutant: the catch block keeps the exception whatever the option says
BatchExecAlwaysContinues(s, r) ==
  /\ ~crashed /\ pc[s] = "b_exec"
  /\ trace' = [trace EXCEPT ![s] = Append(@,
       Call(s, "executeQuery", it[s], parameterList[s][it[s]], FALSE, r, FALSE))]
  /\ exception' = [exception EXCEPT ![s] =
                     IF r.ok THEN @ ELSE Err("Transport", it[s], r.msg)]
  /\ it' = [it EXCEPT ![s] = @ + 1]
  /\ Goto(s, "b_loop")
  /\ ret' = NoCall
  /\ UNCHANGED <<storeVars, results, op, size, caught, lock, optVars, metaVars, interrupted,
                 crashed>>

\* lines 290-304 (309-323): one protocol->executeQuery for the entry at `it`
BatchExec(s, r) ==
  /\ ~crashed /\ pc[s] = "b_exec"
  /\ trace' = [trace EXCEPT ![s] = Append(@,
       Call(s, "executeQuery", it[s], parameterList[s][it[s]], FALSE, r, FALSE))]
  /\ IF r.ok
     THEN /\ it' = [it EXCEPT ![s] = @ + 1]
          /\ Goto(s, "b_loop")
          /\ UNCHANGED <<exception, caught>>
     ELSE IF continueBatchOnError
     THEN /\ exception' = [exception EXCEPT ![s] = Err("Transport", it[s], r.msg)]
          /\ it' = [it EXCEPT ![s] = @ + 1]
          /\ Goto(s, "b_loop")
          /\ UNCHANGED caught
     ELSE /\ caught' = [caught EXCEPT ![s] = Err("Transport", it[s], r.msg)]
          /\ Goto(s, "b_catch")
          /\ UNCHANGED <<it, exception>>
  /\ ret' = NoCall
  /\ UNCHANGED <<storeVars, results, op, size, lock, optVars, metaVars, interrupted, crashed>>

\* mutant: the executed entries are removed from the queue
BatchEndConsumesQueue(s) ==
  /\ ~crashed /\ pc[s] = "b_end"
  /\ ret' = Returned(s, op[s], size[s], {"commandEnd"})
  /\ parameterList' = [parameterList EXCEPT ![s] = <<>>]
  /\ Release(s)
  /\ Leave(s)
  /\ UNCHANGED <<created, paramCount, parameters, hasLongData, results, optVars,
                 metaVars, interrupted, crashed>>

\* lines 201-202 (245-246): commandEnd and return; line 209 is never reached
BatchEnd(s) ==
  /\ ~crashed /\ pc[s] = "b_end"
  /\ ret' = Returned(s, op[s], size[s], {"commandEnd"})
  /\ Release(s)
  /\ Leave(s)
  /\ UNCHANGED <<storeVars, results, optVars, metaVars, interrupted, crashed>>

\* lines 205-208 (248-251): executeBatchEpilogue, throw; the guard releases
BatchCatch(s) ==
  /\ ~crashed /\ pc[s] = "b_catch"
  /\ ret' = Raised(s, op[s], caught[s], {"executeBatchEpilogue"})
  /\ Release(s)
  /\ Leave(s)
  /\ UNCHANGED <<storeVars, results, optVars, metaVars, interrupted, crashed>>

\* ------------------------------------------------ failing cleanup hooks
\* lines 138-139: commandEnd or executeEpilogue raises inside the try block
ExecEndFails(s, m) ==
  /\ ~crashed /\ pc[s] = "e_end"
  /\ caught' = [caught EXCEPT ![s] = Err("Hook", 0, m)]
  /\ Goto(s, "e_catch")
  /\ ret' = NoCall
  /\ UNCHANGED <<storeVars, results, op, size, it, exception, trace, lock, optVars, metaVars,
                 interrupted, crashed>>

\* mutant: a plain lock()/unlock() pair, whose unlock() at line 147 is
\* skipped when a hook raises first
ExecCatchFailsLocked(s, m) ==
  /\ ~crashed /\ pc[s] = "e_catch"
  /\ ret' = Raised(s, "execute", Err("Hook", 0, m), {})
  /\ Leave(s)
  /\ UNCHANGED <<storeVars, results, lock, optVars, metaVars, interrupted, crashed>>

\* lines 143-146: a hook raises inside the catch block, before unlock(); the
\* unique_lock's destructor releases the mutex while the stack unwinds
ExecCatchFails(s, m) ==
  /\ ~crashed /\ pc[s] = "e_catch"
  /\ ret' = Raised(s, "execute", Err("Hook", 0, m), {})
  /\ Release(s)
  /\ Leave(s)
  /\ UNCHANGED <<storeVars, results, optVars, metaVars, interrupted, crashed>>

\* line 201 (245): commandEnd raises inside the try block
BatchEndFails(s, m) ==
  /\ ~crashed /\ pc[s] = "b_end"
  /\ caught' = [caught EXCEPT ![s] = Err("Hook", 0, m)]
  /\ Goto(s, "b_catch")
  /\ ret' = NoCall
  /\ UNCHANGED <<storeVars, results, op, size, it, exception, trace, lock, optVars, metaVars,
                 interrupted, crashed>>

\* line 206 (249): executeBatchEpilogue raises inside the catch block; the
\* lock_guard's destructor releases the mutex while the stack unwinds
BatchCatchFails(s, m) ==
  /\ ~crashed /\ pc[s] = "b_catch"
  /\ ret' = Raised(s, op[s], Err("Hook", 0, m), {})
  /\ Release(s)
  /\ Leave(s)
  /\ UNCHANGED <<storeVars, results, optVars, metaVars, interrupted, crashed>>

\* a watchdog on another thread requests the interrupt while a call runs
Interrupt ==
  /\ ~crashed /\ ~interrupted
  /\ \E s \in Stmts : pc[s] # "idle"
  /\ interrupted' = TRUE
  /\ ret' = NoCall
  /\ UNCHANGED <<storeVars, execVars, optVars, metaVars, crashed>>

\* --------------------------------------------------------------- metadata
\* lines 427-443: an ephemeral ServerSidePreparedStatement on behalf of
\* `caller`; when it raises only parameterMetaData is set (SimpleParameterMetaData)
LoadParametersData(s, caller, ok) ==
  /\ Len(prepares[s]) < MaxPrepares
  /\ prepares' = [prepares EXCEPT ![s] = Append(@, caller)]
  /\ IF ok
     THEN /\ resultSetMetaData' = [resultSetMetaData EXCEPT ![s] = "real"]
          /\ parameterMetaData' = [parameterMetaData EXCEPT ![s] = "real"]
     ELSE /\ parameterMetaData' = [parameterMetaData EXCEPT ![s] = "simple"]
          /\ UNCHANGED resultSetMetaData

\* getMetaData(): the current result set's metadata if there is one (hasRs),
\* else resultSetMetaData, loaded first when it is null
GetMetaData(s, hasRs, ok) ==
  /\ Idle(s)
  /\ IF results[s] # "null" /\ hasRs
     THEN /\ ret' = Returned(s, "getMetaData", 0, {})
          /\ UNCHANGED metaVars
     ELSE IF resultSetMetaData[s] = "null"
     THEN /\ LoadParametersData(s, "getMetaData", ok)
          /\ ret' = Returned(s, "getMetaData", 0, {"loadParametersData"})
     ELSE /\ ret' = Returned(s, "getMetaData", 0, {})
          /\ UNCHANGED metaVars
  /\ UNCHANGED <<storeVars, execVars, optVars, interrupted, crashed>>

\* mutant: no test of the cached pointer
GetParameterMetaDataAlwaysLoads(s, ok) ==
  /\ Idle(s)
  /\ LoadParametersData(s, "getParameterMetaData", ok)
  /\ ret' = Returned(s, "getParameterMetaData", 0, {"loadParametersData"})
  /\ UNCHANGED <<storeVars, execVars, optVars, interrupted, crashed>>

\* getParameterMetaData(): parameterMetaData, loaded first when it is null
GetParameterMetaData(s, ok) ==
  /\ Idle(s)
  /\ IF parameterMetaData[s] = "null"
     THEN /\ LoadParametersData(s, "getParameterMetaData", ok)
          /\ ret' = Returned(s, "getParameterMetaData", 0, {"loadParametersData"})
     ELSE /\ ret' = Returned(s, "getParameterMetaData", 0, {})
          /\ UNCHANGED metaVars
  /\ UNCHANGED <<storeVars, execVars, optVars, interrupted, crashed>>

\* ------------------------------------------------------------------- Next
BatchOps == {"executeBatch", "executeLargeBatch"}

\* the calls on the ParameterStore and the BatchQueue of the handles in H
ParamNext(H, cap) ==
  \/ \E s \in H, idx \in 0..(MaxParams + 1), v \in Vals : SetParameter(s, idx, v)
  \/ \E s \in H : ClearParameters(s)
  \/ \E s \in H : AddBatch(s, cap)
  \/ \E s \in H : ClearBatch(s)

\* creation of the handles in H, and the calls on their stores
StoreNext(H, N, cap) ==
  \/ \E s \in H, n \in N : Construct(s, n)
  \/ \E s \in H, d \in H : Clone(s, d)
  \/ ParamNext(H, cap)

\* single execution by the handles in H
SingleNext(H, msgs) ==
  \/ \E s \in H : Execute(s)
  \/ \E s \in H : ExecLock(s)
  \/ \E s \in H, r \in TransportResults(msgs) : ExecPrologue(s, r)
  \/ \E s \in H, r \in TransportResults(msgs) : ExecQuery(s, r)
  \/ \E s \in H : ExecEnd(s)
  \/ \E s \in H : ExecCatch(s)

\* batch execution by the handles in H
BatchNext(H, msgs) ==
  \/ \E s \in H, o \in BatchOps : ExecuteBatch(s, o)
  \/ \E s \in H : BatchLock(s)
  \/ \E s \in H, r \in TransportResults(msgs) : BatchPrologue(s, r)
  \/ \E s \in H, r \in TransportResults(msgs), h \in BOOLEAN : BatchRewrite(s, r, h)
  \/ \E s \in H : BatchLoop(s)
  \/ \E s \in H, r \in TransportResults(msgs) : BatchExec(s, r)
  \/ \E s \in H : BatchEnd(s)
  \/ \E s \in H : BatchCatch(s)
  \/ Interrupt

\* cleanup hooks of the handles in H raising a secondary failure
HookFailNext(H, msgs) ==
  \/ \E s \in H, m \in msgs : ExecEndFails(s, m)
  \/ \E s \in H, m \in msgs : ExecCatchFails(s, m)
  \/ \E s \in H, m \in msgs : BatchEndFails(s, m)
  \/ \E s \in H, m \in msgs : BatchCatchFails(s, m)

\* metadata calls of the handles in H
MetaNext(H) ==
  \/ \E s \in H, hasRs \in BOOLEAN, ok \in BOOLEAN : GetMetaData(s, hasRs, ok)
  \/ \E s \in H, ok \in BOOLEAN : GetParameterMetaData(s, ok)

Next ==
  \/ StoreNext(Stmts, 0..MaxParams, MaxBatch)
  \/ SingleNext(Stmts, Msgs)
  \/ BatchNext(Stmts, Msgs)
  \/ HookFailNext(Stmts, Msgs)
  \/ MetaNext(Stmts)

\* every handle, every call, every interleaving
Spec == Init /\ [][Next]_vars

\* the store and single execution of all handles, default options
NextStore ==
  \/ StoreNext(Stmts, 0..MaxParams, MaxBatch)
  \/ SingleNext(Stmts, {"E"})

SpecStore == InitWith(0..MaxParams, DefaultOptions) /\ [][NextStore]_vars

\* one handle: its store, single and batch execution, all options
NextBatch ==
  \/ ParamNext({1}, MaxBatch)
  \/ SingleNext({1}, Msgs)
  \/ BatchNext({1}, Msgs)

SpecBatch == Init /\ [][NextBatch]_vars

\* all handles sharing the channel: statements with no parameter (always
\* valid) or one that stays unbound (never valid), short queues, every
\* execution path including failing cleanup hooks; the default options, and
\* continue-on-error together with a statement timeout
NextChannel ==
  \/ \E s \in Stmts, n \in {0, 1} : Construct(s, n)
  \/ \E s \in Stmts : AddBatch(s, MaxQueued)
  \/ SingleNext(Stmts, {"E"})
  \/ BatchNext(Stmts, {"E"})
  \/ HookFailNext(Stmts, {"E"})

ChannelOptions == {<<FALSE, 0, FALSE>>, <<TRUE, 1, TRUE>>}

SpecChannel == InitWith({0, 1}, ChannelOptions) /\ [][NextChannel]_vars

\* metadata: statements without parameters, cloned and asked for their
\* metadata in every order, the first of them also executed
NextMeta ==
  \/ \E s \in Stmts, d \in Stmts : Clone(s, d)
  \/ SingleNext({1}, {"E"})
  \/ MetaNext(Stmts)

SpecMeta == InitWith({0}, DefaultOptions) /\ [][NextMeta]_vars

\* ================================================================ claims
ChannelPcs ==
  {"e_prologue", "e_exec", "e_end", "e_catch",
   "b_prologue", "b_rewrite", "b_loop", "b_exec", "b_end", "b_catch"}
WaitingPcs == {"e_lock", "b_lock"}
BatchPcs == {"b_lock", "b_prologue", "b_rewrite", "b_loop", "b_exec", "b_end", "b_catch"}

Min(S) == CHOOSE x \in S : \A y \in S : x <= y

\* indexes in tr of the per-entry calls, of those that failed
EntryCalls(tr) == {j \in DOMAIN tr : tr[j].call = "executeQuery" /\ tr[j].pos >= 1}
FailedCalls(tr) == {j \in EntryCalls(tr) : ~tr[j].ok}
\* queue positions dispatched, and completed without failure
DispatchedEntries(tr) == {tr[j].pos : j \in EntryCalls(tr)}
CompletedEntries(tr) == {tr[j].pos : j \in EntryCalls(tr) \ FailedCalls(tr)}

\* ordinals of the handle's slots that hold no value
UnboundSlots(s) == {i \in 1..paramCount[s] : ~SlotBound(s, i)}

\* C1: at most one logical operation is in flight on the connection: a handle
\* between taking the lock and leaving its operation owns the lock, every
\* Transport call was made by the owner of the lock, and no two operations
\* have Transport calls outstanding at the same time.
C1_OneOperationInFlight ==
  /\ \A s \in Stmts : pc[s] \in ChannelPcs => lock = s
  /\ \A s \in Stmts : \A j \in DOMAIN trace[s] : trace[s][j].held
  /\ \A s, u \in Stmts : (s # u /\ trace[s] # <<>>) => trace[u] = <<>>

\* a batch is between its first and its next Transport call while another
\* handle waits for the lock
C1_Witness ==
  \E s, u \in Stmts :
    /\ s # u
    /\ pc[s] = "b_exec" /\ Len(trace[s]) >= 1
    /\ pc[u] \in WaitingPcs

\* C2: the lock is released on every exit path: only a handle inside the
\* locked part of an operation owns the lock, so once executeSingle or
\* executeBatch has returned or raised (Transport failure, cancellation,
\* validation failure, a hook raising a secondary failure) the lock is free
\* for the next waiting handle.
C2_LockReleased ==
  /\ \A s \in Stmts : lock = s => pc[s] \in ChannelPcs
  /\ (ret.kind \in {"ok", "raised"} /\ ret.stmt \in Stmts) => lock # ret.stmt

\* a cleanup hook raised a secondary failure, the lock is free and another
\* handle is waiting for it
C2_Witness ==
  /\ ret.kind = "raised" /\ ret.err.type = "Hook"
  /\ lock = NoStmt
  /\ \E u \in Stmts : pc[u] \in WaitingPcs

C4_FirstFailureReported ==
  [][\A s \in Stmts :
       (/\ continueBatchOnError /\ op[s] \in BatchOps
        /\ Cardinality(FailedCalls(trace[s])) >= 2
        /\ \A j \in FailedCalls(trace[s]) : trace[s][j].msg # ""
        /\ caught[s].type # "Interrupted"
        /\ pc'[s] = "idle") =>
         LET first == trace[s][Min(FailedCalls(trace[s]))] IN
         /\ DispatchedEntries(trace[s]) = 1..Len(parameterList[s])
         /\ ret'.stmt = s /\ ret'.kind = "raised"
         /\ ret'.err = Err("Transport", first.pos, first.msg)]_vars

\* C5: addBatch is atomic and snapshots by value: with an unbound slot it
\* raises and leaves the queue alone; otherwise it appends the store's values
\* as one entry; no call on the store changes an entry already queued.
C5_AddBatchAtomic ==
  [][\A s \in Stmts :
       /\ (ret'.stmt = s /\ ret'.op = "addBatch") =>
            IF UnboundSlots(s) # {}
            THEN ret'.kind = "raised" /\ parameterList' = parameterList
            ELSE /\ ret'.kind = "ok"
                 /\ parameterList' =
                      [parameterList EXCEPT ![s] = Append(@, parameters[s])]
       /\ (ret'.stmt = s /\ ret'.op \in {"addBatch", "setParameter", "clearParameters"}) =>
            \A i \in DOMAIN parameterList[s] :
              /\ i \in DOMAIN parameterList'[s]
              /\ parameterList'[s][i] = parameterList[s][i]]_vars

\* C6: executeBatch / executeLargeBatch on an empty queue returns an empty
\* update-count sequence at once: no lock, no prologue, no Transport call,
\* whoever owns the lock.
C6_EmptyBatchReturns ==
  [][\A s \in Stmts :
       (Idle(s) /\ Len(parameterList[s]) = 0) =>
         /\ pc'[s] \notin BatchPcs
         /\ (ret'.stmt = s /\ ret'.op \in BatchOps) =>
              /\ ret' = Returned(s, ret'.op, 0, {})
              /\ UNCHANGED <<lock, pc, trace, results, interrupted>>]_vars

\* an empty batch returned while another handle owned the lock
C6_Witness ==
  /\ ret.op \in BatchOps /\ ret.kind = "ok" /\ ret.counts = 0
  /\ Len(parameterList[ret.stmt]) = 0
  /\ lock \notin {NoStmt, ret.stmt}

\* C7: clone() yields a handle with the source's parameter count and that
\* many unbound slots, and no call on one handle changes the store or the
\* queue of another.
C7_CloneUnboundIndependent ==
  [][\A d \in Stmts :
       /\ (~created[d] /\ created'[d] /\ ret'.op = "clone") =>
            /\ paramCount'[d] = paramCount[ret'.stmt]
            /\ parameters'[d] = Unbound(paramCount[ret'.stmt])
       /\ (created[d] /\ ret'.stmt \in Stmts \ {d}) =>
            /\ parameters'[d] = parameters[d]
            /\ parameterList'[d] = parameterList[d]
            /\ paramCount'[d] = paramCount[d]]_vars

\* C8: the ParameterStore of every handle has exactly paramCount slots.
C8_StoreHasParamCountSlots ==
  \A s \in Stmts : created[s] => Len(parameters[s]) = paramCount[s]

\* C9: single execution with an unbound slot never reaches the lock: it
\* raises UnboundParameterError naming the smallest unbound ordinal.
C9_ValidatesBeforeChannel ==
  [][\A s \in Stmts :
       (Idle(s) /\ UnboundSlots(s) # {}) =>
         /\ pc'[s] # "e_lock"
         /\ (ret'.stmt = s /\ ret'.op = "execute") =>
              /\ ret'.kind = "raised"
              /\ ret'.err = Err("UnboundParameter", Min(UnboundSlots(s)), "E")
              /\ UNCHANGED <<lock, trace, results>>]_vars

\* C10: setParameter with an index outside [1, paramCount] raises and changes
\* neither the store nor the queue; with an index inside it returns having
\* rebound exactly one slot of the store.
C10_SetParameter ==
  [][\A s \in Stmts :
       (ret'.stmt = s /\ ret'.op = "setParameter") =>
         /\ parameterList' = parameterList
         /\ ret'.kind = "raised" =>
              /\ ret'.err.pos \notin 1..paramCount[s]
              /\ parameters' = parameters
         /\ ret'.kind = "ok" =>
              \E i \in DOMAIN parameters[s], v \in Vals :
                parameters' = [parameters EXCEPT ![s][i] = v]]_vars

\* callers of the ephemeral prepares the handle attempted
PreparesBy(s, caller) == {j \in DOMAIN prepares[s] : prepares[s][j] = caller}

\* C11: parameter-metadata resolution is memoized: over any sequence of
\* getParameterMetaData calls on a handle, at most one ephemeral prepare is
\* attempted, whether it succeeded or failed; a call attempts it only while
\* nothing is cached and always leaves metadata cached.
C11_ParameterMetaDataMemoized ==
  /\ \A s \in Stmts : Cardinality(PreparesBy(s, "getParameterMetaData")) <= 1
  /\ \A s \in Stmts : PreparesBy(s, "getParameterMetaData") # {} =>
                        parameterMetaData[s] # "null"
  /\ (ret.op = "getParameterMetaData" /\ ret.stmt \in Stmts) =>
       parameterMetaData[ret.stmt] # "null"

\* a getParameterMetaData call returned the synthetic metadata of an earlier
\* call, whose prepare had failed, without preparing again
C11_Witness ==
  /\ ret.op = "getParameterMetaData" /\ ret.hooks = {}
  /\ parameterMetaData[ret.stmt] = "simple"
  /\ prepares[ret.stmt] = <<"getParameterMetaData">>

\* C12: batch execution reads the queue and never changes it: from the call
\* of executeBatch / executeLargeBatch until it returns or raises the queue
\* keeps its entries and their order, and a successful call returns one
\* update count per queued entry.
C12_BatchLeavesQueue ==
  [][\A s \in Stmts :
       /\ (pc[s] \in BatchPcs \/ pc'[s] \in BatchPcs) =>
            parameterList'[s] = parameterList[s]
       /\ (ret'.stmt = s /\ ret'.op \in BatchOps) =>
            /\ parameterList' = parameterList
            /\ ret'.kind = "ok" => ret'.counts = Len(parameterList[s])]_vars

\* a batch of three entries has returned three update counts and the queue
\* still holds the three entries
C12_Witness ==
  /\ ret.op \in BatchOps /\ ret.kind = "ok" /\ ret.counts = 3
  /\ Len(parameterList[ret.stmt]) = 3

\* C13: clearBatch empties the queue and resets the long-data flag and
\* leaves every slot of the store as it was; clearParameters unbinds every
\* slot and leaves the queue and the flag as they were.
C13_ClearsIndependent ==
  [][\A s \in Stmts :
       /\ (ret'.stmt = s /\ ret'.op = "clearBatch") =>
            /\ parameterList'[s] = <<>> /\ ~hasLongData'[s]
            /\ parameters' = parameters
       /\ (ret'.stmt = s /\ ret'.op = "clearParameters") =>
            /\ parameters'[s] = Unbound(paramCount[s])
            /\ parameterList' = parameterList /\ hasLongData' = hasLongData]_vars

\* C14: when single or batch execution raises a Transport failure or a
\* cancellation, the result sink (if one exists) was finalized with
\* commandEnd and the epilogue hook was run before the error is raised.
C14_CleanupBeforeRaise ==
  [][\A s \in Stmts :
       (/\ ret'.stmt = s /\ ret'.kind = "raised"
        /\ ret'.op \in BatchOps \cup {"execute"}
        /\ ret'.err.type \in {"Transport", "Interrupted"}) =>
         /\ ret'.op = "execute" => "executeEpilogue" \in ret'.hooks
         /\ ret'.op \in BatchOps => "executeBatchEpilogue" \in ret'.hooks
         /\ results[s] # "null" => "commandEnd" \in ret'.hooks]_vars

\* C15: a successful executeBatch / executeLargeBatch on a non-empty queue
\* has made its Transport calls while holding the lock, then finalized the
\* result sink, then run the batch epilogue hook, and releases the lock as it
\* returns.
C15_BatchEpilogueOnSuccess ==
  [][\A s \in Stmts :
       (ret'.stmt = s /\ ret'.op \in BatchOps /\ ret'.kind = "ok" /\ ret'.counts > 0) =>
         /\ lock = s /\ lock' = NoStmt
         /\ trace[s] # <<>> /\ \A j \in DOMAIN trace[s] : trace[s][j].held
         /\ {"commandEnd", "executeBatchEpilogue"} \subseteq ret'.hooks]_vars

\* C16: continue-on-error enabled, sequential fallback run to its end: the
\* call raises if and only if the Transport call of some entry failed,
\* whatever the message of the failure.
C16_RaisesIffAnyFailure ==
  [][\A s \in Stmts :
       (/\ continueBatchOnError /\ op[s] \in BatchOps
        /\ it[s] > Len(parameterList[s])
        /\ pc'[s] = "idle") =>
         (ret'.kind = "raised" <=> FailedCalls(trace[s]) # {})]_vars

\* C17: strategy selection: the first Transport call of a batch is the one
\* executeBatchClient call; when it reports the batch handled no other call
\* follows; otherwise the per-entry calls follow in queue order, one per
\* entry, each with the entry's queued values, and all entries have been
\* dispatched when the batch completes.
C17_StrategySelection ==
  \A s \in Stmts : op[s] \in BatchOps =>
    LET tr == trace[s] IN
    /\ tr # <<>> => tr[1].call = "executeBatchClient"
    /\ (tr # <<>> /\ tr[1].handled) => Len(tr) = 1
    /\ \A j \in 2..Len(tr) :
         /\ tr[j].call = "executeQuery" /\ tr[j].pos = j - 1
         /\ tr[j].args = parameterList[s][j - 1]
    /\ pc[s] \in {"b_loop", "b_exec", "b_end"} => tr # <<>>
    /\ pc[s] \in {"b_loop", "b_exec"} => (~tr[1].handled /\ Len(tr) = it[s])
    /\ (pc[s] = "b_end" /\ ~tr[1].handled) => Len(tr) = 1 + Len(parameterList[s])

\* a batch of two entries the rewritten call declined has dispatched both
\* entries in order and completed
C17_Witness ==
  \E s \in Stmts :
    /\ pc[s] = "b_end" /\ Len(parameterList[s]) = 2
    /\ Len(trace[s]) = 3 /\ ~trace[s][1].handled
    /\ trace[s][3].pos = 2 /\ trace[s][3].ok

\* C18: in the sequential fallback an interrupt signalled before an entry is
\* dispatched stops the dispatch of that entry, whatever the timeout setting
\* and the continue-on-error option.
C18_CancellationChecked ==
  [][\A s \in Stmts :
       (pc[s] = "b_loop" /\ it[s] <= Len(parameterList[s]) /\ interrupted) =>
         pc'[s] # "b_exec"]_vars

\* C19: every Transport execute call, of single execution and of the
\* sequential batch fallback alike, carries the timeout exactly when a
\* statement timeout is configured and the server can enforce it.
C19_TimeoutPolicy ==
  \A s \in Stmts : \A j \in DOMAIN trace[s] :
    trace[s][j].call = "executeQuery" =>
      (trace[s][j].timeout <=> (queryTimeout # 0 /\ canUseServerTimeout))

\* C20: over a handle's lifetime at most one ephemeral prepare is attempted,
\* whichever metadata calls are made and whether the prepare succeeded or
\* failed.
C20_AtMostOnePrepare ==
  \A s \in Stmts : Len(prepares[s]) <= 1
====
